---- MODULE Spec2Model ----
(***************************************************************************)
(* A model of data_pipeline._kafka_producer.KafkaProducer: the buffered,   *)
(* policy-gated publisher.  One action per public operation (publish,      *)
(* wake, flush_buffered_messages, close); every operation runs to          *)
(* completion (the producer is single threaded).  The collaborators the    *)
(* producer calls (key retrieval, yelp_crypto, the envelope codec, the     *)
(* kafka client, the clock) are inputs of the actions.                     *)
(***************************************************************************)
EXTENDS Integers, Sequences, FiniteSets

VARIABLES
  dry_run,                 \* self.dry_run
  skip_messages_with_pii,  \* self.skip_messages_with_pii
  user,                    \* self.user
  start_time,              \* self.start_time
  message_buffer,          \* self.message_buffer: topic -> list of prepared messages
  message_buffer_size,     \* self.message_buffer_size
  position_data_tracker,   \* self.position_data_tracker
  kafka_client,            \* self.kafka_client
  now,                     \* time.time()
  accepted,                \* history: messages accepted by publish since the last reset
  last                     \* history: what the last operation of the producer did

vars == <<dry_run, skip_messages_with_pii, user, start_time, message_buffer,
          message_buffer_size, position_data_tracker, kafka_client,
          now, accepted, last>>

----------------------------------------------------------------------------
(* Configuration read through get_config().                                *)
kafka_producer_flush_time_limit_seconds == 1
kafka_producer_buffer_size == 2

(* Bounds of the model.  The clock is followed until the time limit has    *)
(* elapsed once; a topic's published counter is followed up to one full    *)
(* buffer, or up to the topic's buffered counter if that is more.          *)
MaxPublishes == 2     \* messages accepted into the buffer over a run
MaxTime == kafka_producer_flush_time_limit_seconds
MaxPublished == kafka_producer_buffer_size

Topics == {"a", "b"}
Users == {"batch", "other"}
acceptable_users == {"batch"}
DryRunOffset == 0 - 1

----------------------------------------------------------------------------
(* Values.  A payload value is [form, body, layers, key]: form is the      *)
(* representation (none, blob = raw bytes, dict = structured data, json =  *)
(* JSON text), layers counts the encryptions applied to it and key is the  *)
(* key of the outermost one.                                               *)

NoValue == [form |-> "none", body |-> "", layers |-> 0, key |-> ""]
Blob(b) == [form |-> "blob", body |-> b, layers |-> 0, key |-> ""]
Dict(b) == [form |-> "dict", body |-> b, layers |-> 0, key |-> ""]

Truthy(v) == v.form # "none"

Message(topic, pii, payload, payload_data, keys) ==
  [topic |-> topic, contains_pii |-> pii, payload |-> payload,
   payload_data |-> payload_data, keys |-> keys]

Messages ==
  { Message("a", FALSE, Blob("p1"), NoValue, ""),
    Message("a", TRUE, Blob("p2"), NoValue, "k"),
    Message("b", TRUE, NoValue, Dict("p3"), "") }

NoMessage == Message("", FALSE, NoValue, NoValue, "")

(* json.dumps and json.loads.  Text that is ciphertext parses only if the  *)
(* encryption service happens to emit JSON: parses says whether it does.   *)
json_dumps(v) == [v EXCEPT !.form = "json"]
json_loads_ok(v, parses) == v.form = "json" /\ (v.layers = 0 \/ parses)
json_loads(v) == [v EXCEPT !.form = "dict"]

(* yelp_crypto.encrypt_blob                                                *)
encrypt_blob(key, v) == [v EXCEPT !.layers = @ + 1, !.key = key]

----------------------------------------------------------------------------
(* Collaborators.                                                          *)

(* PositionDataTracker: per-topic counts of the messages recorded as       *)
(* buffered and as published.                                              *)
PositionDataTracker ==
  [buffered |-> [t \in Topics |-> 0],
   published |-> [t \in Topics |-> 0]]

record_message_buffered(tracker, message) ==
  [tracker EXCEPT !.buffered[message.topic] = @ + 1]

record_messages_published(tracker, topic, offset, count) ==
  [tracker EXCEPT !.published[topic] = @ + count]

get_position_data(tracker) == tracker

(* The broker's answer to one send_produce_request: the call raises, or    *)
(* returns a list of responses {topic, offset, error}; error 0 is success. *)
(* The lists are those of up to n successful responses, and the single     *)
(* responses that carry an error code.                                     *)
Offsets == {5}
ErrorCodes == {0, 1}
Response == [topic : Topics, offset : Offsets, error : ErrorCodes]

ResponseLists(n) ==
  UNION { [1..k -> {r \in Response : r.error = 0}] : k \in 0..n }
    \cup { <<r>> : r \in {r \in Response : r.error # 0} }

BrokerOutcomes ==
  { [raises |-> TRUE, responses |-> <<>>] } \cup
  { [raises |-> FALSE, responses |-> r] : r \in ResponseLists(Cardinality(Topics)) }

NoBroker == [raises |-> FALSE, responses |-> <<>>]

(* Key retrieval: the normal path of _retrieve_key is a placeholder (it    *)
(* yields None), the exception path yields False; "k1" stands for a key    *)
(* the encryption service supplies.                                        *)
KeyOutcomes == {"None", "False", "k1"}

----------------------------------------------------------------------------
(* The producer.  An operation is a function of the object's state s and   *)
(* of the inputs its collaborators supply; the fields of s below the       *)
(* object's own are the record of what the running operation has done.     *)

EmptyBuffer == [t \in {} |-> <<>>]

Observed ==
  [op |-> "none", error |-> "none", message |-> NoMessage, decision |-> "none",
   key_attempts |-> 0, key_found |-> FALSE, appended |-> FALSE,
   checked |-> FALSE, elapsed |-> 0, count_at_check |-> 0,
   flush_attempts |-> 0, requests |-> <<>>, flushed |-> [t \in {} |-> <<>>],
   buffer |-> [t \in {} |-> <<>>], sends |-> 0, calls |-> <<>>, acks |-> <<>>,
   snapshots |-> <<>>, released |-> FALSE]

Raise(s, e) == [s EXCEPT !.obs.error = e]

(* collections.defaultdict(list).__getitem__: reading a missing key        *)
(* inserts an empty list under it.                                         *)
defaultdict_getitem(buffer, topic) ==
  IF topic \in DOMAIN buffer
  THEN buffer
  ELSE [t \in DOMAIN buffer \cup {topic} |->
          IF t = topic THEN <<>> ELSE buffer[t]]

(* _prepare / Envelope.pack / create_message                               *)
pack(message) == [message EXCEPT !.keys = ""]
pack_keys(keys) == keys
_prepare(message) ==
  [value |-> pack(message),
   key |-> IF message.keys # "" THEN pack_keys(message.keys) ELSE "None"]

_prepare_message(message) == _prepare(message)

_reset_message_buffer(s) ==
  [s EXCEPT !.obs.snapshots = Append(@, get_position_data(s.tracker)),
            !.start_time = s.clock,
            !.message_buffer = EmptyBuffer,
            !.message_buffer_size = 0,
            !.accepted = [t \in Topics |-> <<>>]]

(* _add_message_to_buffer without the increment of message_buffer_size.     *)
_add_message_to_buffer_uncounted(s, message, pack_ok) ==
  IF ~pack_ok
  THEN Raise(s, "encode")
  ELSE LET topic == message.topic
           prepared == _prepare_message(message)
           buffer == defaultdict_getitem(s.message_buffer, topic)
       IN [s EXCEPT !.message_buffer = [buffer EXCEPT ![topic] = Append(@, prepared)],
                    !.obs.appended = TRUE]

(* _add_message_to_buffer inserting at the head of the topic's list.       *)
_add_message_to_buffer_prepend(s, message, pack_ok) ==
  IF ~pack_ok
  THEN Raise(s, "encode")
  ELSE LET topic == message.topic
           prepared == _prepare_message(message)
           buffer == defaultdict_getitem(s.message_buffer, topic)
       IN [s EXCEPT !.message_buffer = [buffer EXCEPT ![topic] = <<prepared>> \o @],
                    !.message_buffer_size = @ + 1,
                    !.obs.appended = TRUE]

(* _add_message_to_buffer looking up the topic's list before it prepares   *)
(* the message.                                                            *)
_add_message_to_buffer_eager(s, message, pack_ok) ==
  LET topic == message.topic
      prepared == _prepare_message(message)
      buffer == defaultdict_getitem(s.message_buffer, topic)
  IN IF ~pack_ok
     THEN Raise([s EXCEPT !.message_buffer = buffer], "encode")
     ELSE [s EXCEPT !.message_buffer = [buffer EXCEPT ![topic] = Append(@, prepared)],
                    !.message_buffer_size = @ + 1,
                    !.obs.appended = TRUE]

_add_message_to_buffer(s, message, pack_ok) ==
  IF ~pack_ok
  THEN Raise(s, "encode")
  ELSE LET topic == message.topic
           prepared == _prepare_message(message)
           buffer == defaultdict_getitem(s.message_buffer, topic)
       IN [s EXCEPT !.message_buffer = [buffer EXCEPT ![topic] = Append(@, prepared)],
                    !.message_buffer_size = @ + 1,
                    !.obs.appended = TRUE]

_generate_prepared_topic_and_messages(s, order) ==
  SelectSeq(order, LAMBDA t : t \in DOMAIN s.message_buffer)

(* _generate_produce_requests stopping after the first topic.              *)
_generate_produce_requests_first(s, order) ==
  LET topics == _generate_prepared_topic_and_messages(s, order)
  IN [i \in 1..(IF Len(topics) > 1 THEN 1 ELSE Len(topics)) |->
        [topic |-> topics[i], partition |-> 0,
         messages |-> s.message_buffer[topics[i]]]]

_generate_produce_requests(s, order) ==
  LET topics == _generate_prepared_topic_and_messages(s, order)
  IN [i \in 1..Len(topics) |->
        [topic |-> topics[i], partition |-> 0,
         messages |-> s.message_buffer[topics[i]]]]

(* The dry run recording the number of requests as the message count.     *)
_publish_produce_requests_dry_run_miscounted(s, requests) ==
  LET RECURSIVE Loop(_, _)
      Loop(tracker, i) ==
        IF i > Len(requests)
        THEN tracker
        ELSE Loop(record_messages_published(
                    tracker, requests[i].topic, DryRunOffset, Len(requests)), i + 1)
  IN [s EXCEPT !.tracker = Loop(s.tracker, 1),
               !.obs.calls = [i \in 1..Len(requests) |->
                  <<requests[i].topic, DryRunOffset, Len(requests)>>]]

_publish_produce_requests_dry_run(s, requests) ==
  LET RECURSIVE Loop(_, _)
      Loop(tracker, i) ==
        IF i > Len(requests)
        THEN tracker
        ELSE Loop(record_messages_published(
                    tracker, requests[i].topic, DryRunOffset,
                    Len(requests[i].messages)), i + 1)
  IN [s EXCEPT !.tracker = Loop(s.tracker, 1),
               !.obs.calls = [i \in 1..Len(requests) |->
                  <<requests[i].topic, DryRunOffset, Len(requests[i].messages)>>]]

(* The for loop of _publish_produce_requests over the responses.           *)
RECURSIVE ForResponses(_, _, _, _)
ForResponses(s, responses, i, published_messages_count) ==
  IF i > Len(responses)
  THEN [s |-> s, published_messages_count |-> published_messages_count]
  ELSE LET response == responses[i]
           buffer == defaultdict_getitem(s.message_buffer, response.topic)
           n == Len(buffer[response.topic])
           s1 == [s EXCEPT
                    !.message_buffer = buffer,
                    !.tracker = record_messages_published(
                                  @, response.topic, response.offset, n),
                    !.obs.calls = Append(@, <<response.topic, response.offset, n>>),
                    !.obs.acks = Append(@, <<response.topic, response.error>>)]
       IN ForResponses(s1, responses, i + 1, published_messages_count + n)

AllPublished(published_messages_count, s) ==
  published_messages_count = s.message_buffer_size

_publish_produce_requests(s, requests, broker) ==
  LET sent == [s EXCEPT !.obs.sends = @ + 1]
  IN IF broker.raises
     THEN Raise(sent, "transport")
     ELSE LET done == ForResponses(sent, broker.responses, 1, 0)
          IN IF AllPublished(done.published_messages_count, done.s)
             THEN done.s
             ELSE Raise(done.s, "assert")

(* env = [broker, order]: the broker's answer and the iteration order of   *)
(* the buffer's topics.                                                    *)
flush_buffered_messages(s, env) ==
  LET requests == _generate_produce_requests(s, env.order)
      handed == [s EXCEPT !.obs.flush_attempts = @ + 1,
                          !.obs.requests = requests,
                          !.obs.buffer = s.message_buffer,
                          !.obs.flushed = s.accepted]
      produced == IF s.dry_run
                  THEN _publish_produce_requests_dry_run(handed, requests)
                  ELSE _publish_produce_requests(handed, requests, env.broker)
  IN IF produced.obs.error # "none"
     THEN produced
     ELSE _reset_message_buffer(produced)

(* _is_ready_to_flush with strict comparisons.                             *)
_is_ready_to_flush_strict(s) ==
  LET time_limit == kafka_producer_flush_time_limit_seconds
  IN \/ (s.clock - s.start_time) > time_limit
     \/ s.message_buffer_size > kafka_producer_buffer_size

_is_ready_to_flush(s) ==
  LET time_limit == kafka_producer_flush_time_limit_seconds
  IN \/ (s.clock - s.start_time) >= time_limit
     \/ s.message_buffer_size >= kafka_producer_buffer_size

_flush_if_necessary(s, env) ==
  LET checked == [s EXCEPT !.obs.checked = TRUE,
                           !.obs.elapsed = s.clock - s.start_time,
                           !.obs.count_at_check = s.message_buffer_size]
  IN IF _is_ready_to_flush(s)
     THEN flush_buffered_messages(checked, env)
     ELSE checked

(* wake looking at the policy without ever flushing.                       *)
wake_idle(s, env) == [s EXCEPT !.obs.checked = TRUE]

wake(s, env) == _flush_if_necessary(s, env)

close(s, env) ==
  LET flushed == flush_buffered_messages(s, env)
  IN IF flushed.obs.error # "none"
     THEN flushed
     ELSE [flushed EXCEPT !.client.closed = TRUE, !.obs.released = TRUE]

----------------------------------------------------------------------------
(* The privacy gate.                                                       *)

KeyFound(key) == key \notin {"None", "False"}

_retrieve_key(outcome) == outcome

_encrypt_message_using_yelp_crypto(key, message, parses) ==
  LET payload == IF Truthy(message.payload)
                 THEN message.payload ELSE message.payload_data
  IN IF payload.form = "dict"
     THEN LET new_payload == encrypt_blob(key, json_dumps(payload))
          IN IF json_loads_ok(new_payload, parses)
             THEN [result |-> "True", error |-> "none",
                   message |-> [message EXCEPT !.payload_data = json_loads(new_payload)]]
             ELSE [result |-> "None", error |-> "json", message |-> message]
     ELSE LET new_payload == encrypt_blob(key, payload)
          IN [result |-> "True", error |-> "none",
              message |-> [message EXCEPT !.payload = new_payload]]

(* _encrypt_message_with_pii reporting success when no key was found.      *)
_encrypt_message_with_pii_unkeyed(message, key_outcome, parses) ==
  LET key == _retrieve_key(key_outcome)
  IN IF KeyFound(key)
     THEN _encrypt_message_using_yelp_crypto(key, message, parses)
     ELSE [result |-> "True", error |-> "none", message |-> message]

_encrypt_message_with_pii(message, key_outcome, parses) ==
  LET key == _retrieve_key(key_outcome)
  IN IF KeyFound(key)
     THEN _encrypt_message_using_yelp_crypto(key, message, parses)
     ELSE [result |-> "None", error |-> "none", message |-> message]

(* The user test of publish: a gate that consults the allow-list wrongly.  *)
Authorized_anyone(u) == TRUE

Authorized(u) == u \in acceptable_users

(* gate = [key, parses, pack_ok]: the outcome of key retrieval, whether    *)
(* the ciphertext parses as JSON and whether the envelope packs.           *)
(* publish, lines 74-80: the gate, the buffer and the tracker.             *)
publish_accept(s, message, gate) ==
  LET Gate(m, decision, attempts, found) ==
        [s EXCEPT !.obs.message = m, !.obs.decision = decision,
                  !.obs.key_attempts = attempts, !.obs.key_found = found]
      Buffer(gated) ==
        LET m == gated.obs.message
            added == _add_message_to_buffer(gated, m, gate.pack_ok)
        IN IF added.obs.error # "none"
           THEN added
           ELSE [added EXCEPT
                   !.tracker = record_message_buffered(@, m),
                   !.accepted[m.topic] = Append(@, m)]
  IN IF message.contains_pii
     THEN IF s.skip_messages_with_pii \/ ~Authorized(s.user)
          THEN Gate(message, "drop", 0, FALSE)
          ELSE LET e == _encrypt_message_with_pii(message, gate.key, gate.parses)
                   found == KeyFound(_retrieve_key(gate.key))
               IN IF e.error # "none"
                  THEN Raise(Gate(message, "encrypt", 1, found), e.error)
                  ELSE IF e.result # "True"
                       THEN Gate(message, "drop", 1, found)
                       ELSE Buffer(Gate(e.message, "encrypt", 1, found))
     ELSE Buffer(Gate(message, "pass", 0, FALSE))

(* publish going on to the flush check after a drop.                       *)
Continues_after_drop(s) == s.obs.error = "none"

Continues(s) == s.obs.error = "none" /\ s.obs.decision # "drop"

publish(s, message, gate, env) ==
  LET s1 == publish_accept(s, message, gate)
  IN IF Continues(s1) THEN _flush_if_necessary(s1, env) ELSE s1

----------------------------------------------------------------------------
(* The state machine.                                                      *)

Self ==
  [dry_run |-> dry_run, skip_messages_with_pii |-> skip_messages_with_pii,
   user |-> user, start_time |-> start_time, message_buffer |-> message_buffer,
   message_buffer_size |-> message_buffer_size,
   tracker |-> position_data_tracker, client |-> kafka_client,
   clock |-> now, accepted |-> accepted, obs |-> Observed]

Total(f) == f["a"] + f["b"]

WithinBounds(s) ==
  /\ s.clock <= MaxTime
  /\ Total(s.tracker.buffered) <= MaxPublishes
  /\ \A t \in Topics :
       s.tracker.published[t] <=
         (IF s.tracker.buffered[t] > MaxPublished
          THEN s.tracker.buffered[t] ELSE MaxPublished)

Store(op, s) ==
  /\ WithinBounds(s)
  /\ start_time' = s.start_time
  /\ message_buffer' = s.message_buffer
  /\ message_buffer_size' = s.message_buffer_size
  /\ position_data_tracker' = s.tracker
  /\ kafka_client' = s.client
  /\ now' = s.clock
  /\ accepted' = s.accepted
  /\ last' = [s.obs EXCEPT !.op = op]
  /\ UNCHANGED <<dry_run, skip_messages_with_pii, user>>

Orders == {<<"a", "b">>, <<"b", "a">>}
NoEnv == [broker |-> NoBroker, order |-> <<"a", "b">>]

(* The inputs a flush of s reads.                                          *)
FlushEnvs(s) ==
  { [broker |-> b, order |-> o] :
      b \in (IF s.dry_run THEN {NoBroker} ELSE BrokerOutcomes),
      o \in (IF Cardinality(DOMAIN s.message_buffer) > 1
             THEN Orders ELSE {<<"a", "b">>}) }

CheckEnvs(s) == IF _is_ready_to_flush(s) THEN FlushEnvs(s) ELSE {NoEnv}

(* The inputs the gate reads for message.                                  *)
Gates(s, message) ==
  LET asks == /\ message.contains_pii
              /\ ~s.skip_messages_with_pii
              /\ s.user \in acceptable_users
  IN { [key |-> k, parses |-> j, pack_ok |-> p] :
         k \in (IF asks THEN KeyOutcomes ELSE {"None"}),
         j \in (IF asks /\ ~Truthy(message.payload) THEN BOOLEAN ELSE {TRUE}),
         p \in BOOLEAN }

(* __init__: the constructor resets the buffer, which calls the callback.  *)
Init ==
  /\ dry_run \in BOOLEAN
  /\ skip_messages_with_pii \in BOOLEAN
  /\ user \in Users
  /\ now = 0
  /\ start_time = 0
  /\ message_buffer = EmptyBuffer
  /\ message_buffer_size = 0
  /\ position_data_tracker = PositionDataTracker
  /\ kafka_client = [closed |-> FALSE]
  /\ accepted = [t \in Topics |-> <<>>]
  /\ last = [Observed EXCEPT
               !.op = "init",
               !.snapshots = <<get_position_data(PositionDataTracker)>>]

Tick ==
  /\ now < MaxTime
  /\ now' = now + 1
  /\ UNCHANGED <<dry_run, skip_messages_with_pii, user, start_time,
                 message_buffer, message_buffer_size, position_data_tracker,
                 kafka_client, accepted, last>>

Publish ==
  \E message \in Messages :
    \E gate \in Gates(Self, message) :
      LET s1 == publish_accept(Self, message, gate)
      IN \E env \in (IF ~WithinBounds(s1) THEN {}
                     ELSE IF Continues(s1) THEN CheckEnvs(s1) ELSE {NoEnv}) :
           \E s \in {publish(Self, message, gate, env)} : Store("publish", s)

(* The producer never reads whether its client is closed, so what it does  *)
(* after close repeats what it does before: after close the callers are    *)
(* followed through their publish calls only.                              *)
Open == ~kafka_client.closed

Wake ==
  /\ Open
  /\ \E env \in CheckEnvs(Self) :
       \E s \in {wake(Self, env)} : Store("wake", s)

Flush ==
  /\ Open
  /\ \E env \in FlushEnvs(Self) :
       \E s \in {flush_buffered_messages(Self, env)} : Store("flush", s)

Close ==
  /\ Open
  /\ \E env \in FlushEnvs(Self) :
       \E s \in {close(Self, env)} : Store("close", s)

Next == Tick \/ Publish \/ Wake \/ Flush \/ Close

Spec == Init /\ [][Next]_vars

(* The producer left to its timer, with a broker that acknowledges every   *)
(* request: callers publish, wake is called periodically by an external    *)
(* timer while time advances, and each send_produce_request is answered    *)
(* with one successful response per request.                               *)
Acknowledged(s, order) ==
  LET requests == _generate_produce_requests(s, order)
  IN [raises |-> FALSE,
      responses |-> [i \in 1..Len(requests) |->
                       [topic |-> requests[i].topic, error |-> 0,
                        offset |-> CHOOSE o \in Offsets : TRUE]]]

AckedEnvs(s) ==
  IF ~_is_ready_to_flush(s) THEN {NoEnv}
  ELSE { [broker |-> IF s.dry_run THEN NoBroker ELSE Acknowledged(s, o),
          order |-> o] :
           o \in (IF Cardinality(DOMAIN s.message_buffer) > 1
                  THEN Orders ELSE {<<"a", "b">>}) }

PublishAcked ==
  \E message \in Messages :
    \E gate \in Gates(Self, message) :
      LET s1 == publish_accept(Self, message, gate)
      IN \E env \in (IF ~WithinBounds(s1) THEN {}
                     ELSE IF Continues(s1) THEN AckedEnvs(s1) ELSE {NoEnv}) :
           \E s \in {publish(Self, message, gate, env)} : Store("publish", s)

WakeAcked ==
  \E env \in AckedEnvs(Self) :
    \E s \in {wake(Self, env)} : Store("wake", s)

NextIdle == Tick \/ PublishAcked \/ WakeAcked

LiveSpec == Init /\ [][NextIdle]_vars /\ WF_vars(Tick) /\ WF_vars(WakeAcked)

----------------------------------------------------------------------------
(* Properties.                                                             *)

Prepared(messages) == [i \in 1..Len(messages) |-> _prepare(messages[i])]

(* The payload a packed message carries is the one the caller supplied.    *)
Unencrypted(value) ==
  IF Truthy(value.payload) THEN value.payload.layers = 0
  ELSE value.payload_data.layers = 0

OriginalPII(prepared) == prepared.value.contains_pii /\ Unencrypted(prepared.value)

Flushed == last.flush_attempts > 0

(* C1: no message with the PII flag and its original payload is in the     *)
(* buffer or in a ProduceRequest handed to a publish executor, whatever    *)
(* the skip-PII setting, the user and the outcome of key retrieval.        *)
C1_NoUnencryptedPII ==
  /\ \A t \in DOMAIN message_buffer :
       \A i \in 1..Len(message_buffer[t]) : ~OriginalPII(message_buffer[t][i])
  /\ \A r \in 1..Len(last.requests) :
       \A i \in 1..Len(last.requests[r].messages) :
         ~OriginalPII(last.requests[r].messages[i])

(* A PII message was dropped because key retrieval failed, while another   *)
(* PII message sits encrypted in the buffer.                               *)
C1_Witness ==
  /\ last.op = "publish" /\ last.message.contains_pii
  /\ last.key_attempts = 1 /\ ~last.key_found /\ last.decision = "drop"
  /\ \E t \in DOMAIN message_buffer :
       \E i \in 1..Len(message_buffer[t]) : message_buffer[t][i].value.contains_pii

(* C2: a PII message published with skip-PII disabled by a user outside    *)
(* the allow-list is dropped: it is not appended, key retrieval is not     *)
(* attempted, and no PII message is ever in that producer's buffer.        *)
C2_UnauthorizedDropped ==
  (~skip_messages_with_pii /\ user \notin acceptable_users) =>
     /\ (last.op = "publish" /\ last.message.contains_pii) =>
           /\ last.decision = "drop"
           /\ ~last.appended
           /\ last.key_attempts = 0
           /\ last.error = "none"
     /\ \A t \in DOMAIN message_buffer :
          \A i \in 1..Len(message_buffer[t]) :
            ~message_buffer[t][i].value.contains_pii

C2_Witness ==
  /\ ~skip_messages_with_pii /\ user \notin acceptable_users
  /\ last.op = "publish" /\ last.message.contains_pii
  /\ last.decision = "drop"
  /\ message_buffer_size > 0

(* C4: a check of the flush policy (in publish or wake) flushes exactly    *)
(* when the elapsed time >= the time limit or the count >= the size limit; *)
(* a publish that brings the count to the size limit flushes in that call. *)
C4_FlushExactlyWhenDue ==
  last.checked =>
    /\ Flushed <=>
         \/ last.elapsed >= kafka_producer_flush_time_limit_seconds
         \/ last.count_at_check >= kafka_producer_buffer_size
    /\ (last.op = "publish" /\ last.appended
          /\ last.count_at_check = kafka_producer_buffer_size) => Flushed

C4_Witness ==
  /\ last.op = "publish" /\ last.appended /\ last.checked
  /\ last.count_at_check = kafka_producer_buffer_size
  /\ last.elapsed < kafka_producer_flush_time_limit_seconds
  /\ Flushed

(* C3: a PII message published with skip-PII disabled by an allowed user,  *)
(* key retrieval succeeding (and the envelope packing), is accepted: it is *)
(* appended and recorded with its payload encrypted exactly once.          *)
C3_AuthorizedAccepted ==
  ( /\ last.op = "publish" /\ last.message.contains_pii
    /\ ~skip_messages_with_pii /\ user \in acceptable_users
    /\ last.key_found /\ last.error # "encode" ) =>
      /\ last.error = "none"
      /\ last.appended
      /\ last.decision = "encrypt"
      /\ ~Unencrypted(last.message)
      /\ (IF Truthy(last.message.payload) THEN last.message.payload.layers
          ELSE last.message.payload_data.layers) = 1

RECURSIVE SumLen(_, _)
SumLen(f, keys) ==
  IF keys = {} THEN 0
  ELSE LET k == CHOOSE x \in keys : TRUE
       IN Len(f[k]) + SumLen(f, keys \ {k})

Count(f) == SumLen(f, DOMAIN f)

(* C5: the buffer's count is the sum of the lengths of the per-topic       *)
(* lists and the number of messages accepted since the last reset; a reset *)
(* leaves empty lists, count 0 and the current time as start timestamp.    *)
C5_CountIsSum ==
  /\ [](/\ message_buffer_size = Count(message_buffer)
        /\ message_buffer_size = Count(accepted))
  /\ [][(now' = now /\ last'.snapshots # <<>>) =>
          /\ message_buffer' = EmptyBuffer
          /\ message_buffer_size' = 0
          /\ start_time' = now']_vars

C5_Witness ==
  /\ start_time > 0
  /\ message_buffer_size = 1
  /\ last.op = "publish" /\ last.appended

(* C6: per topic, the prepared messages in the buffer, and in the          *)
(* ProduceRequest built for the topic at a flush, are the accepted publish *)
(* calls for that topic since the last reset, in call order, none dropped  *)
(* or merged.                                                              *)
C6_OrderPreserved ==
  /\ \A t \in Topics :
       Prepared(accepted[t]) =
         (IF t \in DOMAIN message_buffer THEN message_buffer[t] ELSE <<>>)
  /\ Flushed =>
       /\ \A r \in 1..Len(last.requests) :
            last.requests[r].messages = Prepared(last.flushed[last.requests[r].topic])
       /\ \A t \in Topics : last.flushed[t] # <<>> =>
            Cardinality({r \in 1..Len(last.requests) : last.requests[r].topic = t}) = 1

C6_Witness ==
  /\ Flushed
  /\ \E r \in 1..Len(last.requests) :
       /\ Len(last.requests[r].messages) = 2
       /\ last.requests[r].messages[1] # last.requests[r].messages[2]

CallsFor(t) == {i \in 1..Len(last.calls) : last.calls[i][1] = t}

(* Every topic flushed has one record (topic, -1, n), n its message count. *)
DryRunRecords ==
  \A t \in Topics :
    IF last.flushed[t] # <<>>
    THEN /\ Cardinality(CallsFor(t)) = 1
         /\ \A i \in CallsFor(t) :
              last.calls[i] = <<t, DryRunOffset, Len(last.flushed[t])>>
    ELSE CallsFor(t) = {}

(* C7 as stated: with dry-run enabled no operation, close included,        *)
(* invokes the transport client, and each flush records (topic, -1, n)     *)
(* once per buffered topic.                                                *)
C7_NoTransportCall ==
  dry_run =>
    /\ last.sends = 0
    /\ ~kafka_client.closed
    /\ Flushed => DryRunRecords

(* C7, amended: with dry-run enabled no operation sends a produce request  *)
(* to the transport client (close still calls the client's close), and     *)
(* each flush records (topic, -1, n) once per buffered topic.              *)
C7_DryRunNeverSends ==
  dry_run =>
    /\ last.sends = 0
    /\ Flushed => DryRunRecords

C7_Witness ==
  /\ dry_run /\ Flushed
  /\ last.calls = << <<"a", DryRunOffset, 2>> >>

FlushFailed == Flushed /\ last.error \in {"assert", "transport"}

(* C8: a live flush whose acknowledgements do not cover the buffer, or     *)
(* whose send raises, re-sends before it ends in a fatal abort.            *)
C8_RetriesBeforeAbort == FlushFailed => last.sends > 1

(* C9: the position callback runs at most once per operation, only after   *)
(* a flush that completed (or at construction), and every snapshot it      *)
(* receives has each message recorded as buffered also recorded as         *)
(* published.                                                              *)
C9_SnapshotFullyFlushed ==
  /\ Len(last.snapshots) <= 1
  /\ (last.snapshots # <<>> /\ last.op # "init") =>
       Flushed /\ last.error = "none"
  /\ \A i \in 1..Len(last.snapshots) :
       \A t \in Topics :
         last.snapshots[i].buffered[t] <= last.snapshots[i].published[t]

(* C10: close releases the transport only after a flush that handed every  *)
(* remaining message to the executor; a flush of an empty buffer publishes *)
(* nothing and records no published position.                              *)
C10_CloseFlushesFirst ==
  /\ last.released =>
       /\ Flushed /\ last.error = "none"
       /\ \A t \in Topics : last.flushed[t] # <<>> =>
            \E r \in 1..Len(last.requests) :
              /\ last.requests[r].topic = t
              /\ last.requests[r].messages = Prepared(last.flushed[t])
  /\ (Flushed /\ Count(last.flushed) = 0) =>
       /\ last.calls = <<>>
       /\ \A r \in 1..Len(last.requests) : last.requests[r].messages = <<>>

(* C11: a publish called after close is rejected with an error: it neither *)
(* appends to the buffer, nor records a buffered position, nor flushes or  *)
(* sends on the closed connection.                                         *)
C11_PublishAfterCloseRejected ==
  (kafka_client.closed /\ last.op = "publish") =>
     /\ last.error # "none"
     /\ ~last.appended
     /\ last.flush_attempts = 0
     /\ last.sends = 0

(* The requests of the last flush carry exactly the messages accepted      *)
(* since the reset before it, one request per topic that has messages.     *)
RECURSIVE RequestMessages(_, _)
RequestMessages(requests, i) ==
  IF i > Len(requests) THEN 0
  ELSE Len(requests[i].messages) + RequestMessages(requests, i + 1)

ExactlyFlushed ==
  /\ RequestMessages(last.requests, 1) = Count(last.flushed)
  /\ Len(last.requests) = Cardinality({t \in Topics : last.flushed[t] # <<>>})
  /\ \A r \in 1..Len(last.requests) :
       last.requests[r].messages = Prepared(last.flushed[last.requests[r].topic])

(* C12: with the time limit not reached, the publish that brings the count *)
(* to the size limit N triggers one flush whose requests carry exactly     *)
(* those N messages and leaves the buffer empty with count 0; after every  *)
(* publish, wake or flush the count is below N.                            *)
C12_BufferBelowLimit ==
  /\ ( /\ last.op = "publish" /\ last.appended
       /\ last.count_at_check = kafka_producer_buffer_size
       /\ last.elapsed < kafka_producer_flush_time_limit_seconds ) =>
         /\ last.flush_attempts = 1
         /\ ExactlyFlushed
         /\ message_buffer = EmptyBuffer
         /\ message_buffer_size = 0
  /\ last.op \in {"publish", "wake", "flush"} =>
       message_buffer_size < kafka_producer_buffer_size

(* C13: a live flush completes (returns, resets the buffer, calls the      *)
(* callback) only if every topic it flushed was acknowledged with error    *)
(* code 0, and a response with a non-zero error code records none of the   *)
(* topic's messages as published.                                          *)
C13_CompletesOnlyIfAllAcked ==
  (~dry_run /\ Flushed) =>
     /\ (last.error = "none" \/ last.snapshots # <<>>) =>
          \A t \in Topics : last.flushed[t] # <<>> =>
            \E i \in 1..Len(last.acks) : last.acks[i] = <<t, 0>>
     /\ \A i \in 1..Len(last.acks) :
          last.acks[i][2] # 0 => last.calls[i][3] = 0

(* C14: a publish that drops a PII message (skip-PII, user outside the     *)
(* allow-list, or no key) returns without error and changes nothing: the   *)
(* per-topic lists, the count, the start timestamp and the tracker's       *)
(* records are as before, the callback is not called, no flush is made.    *)
C14_DropLeavesStateUnchanged ==
  [][(last'.op = "publish" /\ last'.decision = "drop") =>
       /\ last'.error = "none"
       /\ ~last'.appended
       /\ last'.flush_attempts = 0
       /\ last'.snapshots = <<>>
       /\ UNCHANGED <<message_buffer, message_buffer_size, start_time,
                      position_data_tracker>>]_vars

(* A PII message dropped for want of a key while a message is buffered and *)
(* the time limit has passed.                                              *)
C14_Witness ==
  /\ last.op = "publish" /\ last.decision = "drop" /\ last.key_attempts = 1
  /\ message_buffer_size = 1
  /\ now - start_time >= kafka_producer_flush_time_limit_seconds

(* C15: when the envelope fails to pack the message, publish raises and    *)
(* the producer is as before: nothing appended, count and tracker          *)
(* unchanged, no flush made by that call.                                  *)
C15_PackFailureLeavesStateUnchanged ==
  [][(last'.op = "publish" /\ last'.error = "encode") =>
       /\ ~last'.appended
       /\ last'.flush_attempts = 0
       /\ last'.snapshots = <<>>
       /\ UNCHANGED <<message_buffer, message_buffer_size, start_time,
                      position_data_tracker>>]_vars

(* The pack of an encrypted PII message failed while a message is buffered *)
(* and the time limit has passed.                                          *)
C15_Witness ==
  /\ last.op = "publish" /\ last.error = "encode"
  /\ last.decision = "encrypt"
  /\ message_buffer_size = 1
  /\ now - start_time >= kafka_producer_flush_time_limit_seconds

(* Messages are buffered and their time limit ends within the clock's      *)
(* range.                                                                  *)
IdleBuffered ==
  /\ message_buffer_size > 0
  /\ start_time + kafka_producer_flush_time_limit_seconds <= MaxTime

(* C16: wake never appends a message or records one as buffered, and       *)
(* flushes exactly on the condition publish uses (time limit elapsed or    *)
(* size limit reached); with wake called again and again as time advances  *)
(* and flushes succeeding, buffered messages are eventually flushed out of *)
(* the buffer even if no publish follows.                                  *)
C16_WakeFlushesIdleBuffer ==
  /\ [][(last'.op = "wake" /\ now' = now) =>
          /\ ~last'.appended
          /\ last'.checked
          /\ position_data_tracker'.buffered = position_data_tracker.buffered
          /\ (last'.flush_attempts = 1) <=>
               \/ now - start_time >= kafka_producer_flush_time_limit_seconds
               \/ message_buffer_size >= kafka_producer_buffer_size
          /\ (last'.flush_attempts = 0) =>
               UNCHANGED <<message_buffer, message_buffer_size,
                           start_time, position_data_tracker>>]_vars
  /\ IdleBuffered ~> (message_buffer_size = 0)

(* A wake at the time limit flushed the one message buffered, which no     *)
(* publish had flushed.                                                    *)
C16_Witness ==
  /\ last.op = "wake" /\ last.error = "none"
  /\ last.flush_attempts = 1
  /\ last.count_at_check = 1
  /\ last.elapsed = kafka_producer_flush_time_limit_seconds
  /\ Count(last.flushed) = 1
  /\ message_buffer_size = 0

(* C17: the requests built at a flush are one per topic key of the buffer, *)
(* each with partition 0 and that topic's list as it stands; together they *)
(* carry as many messages as the buffer counts.                            *)
C17_OneRequestPerTopic ==
  Flushed =>
    /\ Len(last.requests) = Cardinality(DOMAIN last.buffer)
    /\ \A t \in DOMAIN last.buffer :
         \E r \in 1..Len(last.requests) :
           last.requests[r] =
             [topic |-> t, partition |-> 0, messages |-> last.buffer[t]]
    /\ RequestMessages(last.requests, 1) = Count(last.buffer)
    /\ RequestMessages(last.requests, 1) = Count(last.flushed)

(* A flush of two topics with one message each.                            *)
C17_Witness ==
  /\ Flushed
  /\ Len(last.requests) = 2
  /\ last.requests[1].topic # last.requests[2].topic
  /\ Len(last.requests[1].messages) = 1
  /\ Len(last.requests[2].messages) = 1

(* C18: a live flush that fails (the send raises, or the assertion on the  *)
(* published count fails) leaves the buffer as it was when the flush       *)
(* began: the same topics with the same lists, the same count, the same    *)
(* start timestamp, no reset and no callback.                              *)
C18_FailedFlushLeavesBuffer ==
  [][(now' = now /\ last'.flush_attempts = 1
        /\ last'.error \in {"assert", "transport"}) =>
       /\ message_buffer' = last'.buffer
       /\ message_buffer_size' = Count(last'.buffer)
       /\ start_time' = start_time
       /\ last'.snapshots = <<>>]_vars

(* C19: for every topic the messages recorded as published never exceed    *)
(* the messages recorded as buffered.                                      *)
C19_PublishedAtMostBuffered ==
  \A t \in Topics :
    position_data_tracker.published[t] <= position_data_tracker.buffered[t]

(* C20: every topic key of the buffer has at least one message, and every  *)
(* ProduceRequest built carries at least one message.                      *)
C20_NoEmptyTopicEntry ==
  /\ \A t \in DOMAIN message_buffer : message_buffer[t] # <<>>
  /\ \A r \in 1..Len(last.requests) : last.requests[r].messages # <<>>

====
